---- MODULE Spec2Model ----
(***************************************************************************)
(* Model of analyzeProps.js (src/unnamed/part_000, lines 1-183): the       *)
(* component-props analyzer of genprompt.  The ts-morph type system is the *)
(* facade: a finite graph of types, each identified by its text.           *)
(***************************************************************************)
EXTENDS Naturals, Integers, Sequences, FiniteSets, TLC

VARIABLES
  graph,        \* facade: type text -> sequence of the types it refers to
  fault,        \* facade: the one query that throws, if any
  maxDepth,     \* the maxDepth argument
  call,         \* the last top-level resolveTypeRecursively call and its outcome
  result,       \* analyzeComponentProps: result, exported name -> resolved props
  skippedCount, \* analyzeComponentProps: skippedCount
  processed,    \* analyzeComponentProps: processed, of the current exported name
  name,         \* the exported name the loop of line 20 is at
  seen,         \* the exported names the loop has been at
  decl,         \* the declaration the last forEach callback was given
  hist,         \* history: declarations handled, assignments to result, ...
  returned,     \* analyzeComponentProps has returned { result, skippedCount }
  stack,        \* the activations of resolveTypeRecursively, innermost last
  visitedSet,   \* the visited Set the activations share
  flight,       \* the value returned or exception thrown by the activation that ended last
  expanded,     \* history: type text -> activations that got past line 162 for it
  run           \* summarizeComponentProps: the files on disk, files, the loop, the console

facadeVars == <<graph, fault, maxDepth>>
analyzeVars == <<result, skippedCount, processed, name, seen, decl, hist, returned>>
walkVars == <<stack, visitedSet, flight, expanded>>
summaryVars == <<run>>
vars == <<graph, fault, maxDepth, call, result, skippedCount, processed, name, seen,
          decl, hist, returned, stack, visitedSet, flight, run, expanded>>

(***************************************************************************)
(* Bounds                                                                  *)
(***************************************************************************)
MaxDepthBound == 2
\* declarations exported by the analysed file
MaxDecls == 2
\* the most files a run finds
MaxFiles == 2

(***************************************************************************)
(* The facade (ts-morph Type): texts, kinds, properties.                   *)
(***************************************************************************)
ObjectTypes == {"A", "B"}
ArrayTypes == {"L"}
LeafTypes == {"string"}
Types == LeafTypes \cup ObjectTypes \cup ArrayTypes

\* Property names of the object types, in declaration order.
PropNames(type) ==
  IF type = "A" THEN <<"title", "tags">>
  ELSE IF type = "B" THEN <<"next">>
  ELSE <<>>

\* Number of types a type refers to: its properties, or its element.
Arity(type) == IF type \in ObjectTypes THEN Len(PropNames(type))
               ELSE IF type \in ArrayTypes THEN 1 ELSE 0

getText(type) == type
isArray(type) == type \in ArrayTypes
\* ts-morph: an array type carries TypeFlags.Object as well
isObject(type) == type \in ObjectTypes \cup ArrayTypes
getArrayElementType(type) == graph[type][1]
\* getProperties(): the properties as <<name, type>> pairs, declaration order
getProperties(type) ==
  [i \in 1..Len(PropNames(type)) |-> [name |-> PropNames(type)[i], type |-> graph[type][i]]]

\* Facade queries that may throw.
NoFault == [op |-> "none", type |-> "", idx |-> 0]
Faults ==
  {NoFault}
  \cup {[op |-> o, type |-> t, idx |-> 0] : o \in {"getText", "isArray"}, t \in Types}
  \cup {[op |-> "getProperties", type |-> t, idx |-> 0] : t \in ObjectTypes}
  \cup {[op |-> "getArrayElementType", type |-> t, idx |-> 0] : t \in ArrayTypes}
  \cup {[op |-> "propGetType", type |-> t, idx |-> i] : t \in ObjectTypes, i \in 1..2}

Throws(op, type, idx) == fault = [op |-> op, type |-> type, idx |-> idx]
\* error.message of the exception the facade raises
FaultMessage == fault.op \o " failed"

(***************************************************************************)
(* Values resolveTypeRecursively returns: a string, a one-element array,   *)
(* or an object (keys in insertion order).                                 *)
(***************************************************************************)
Str(s) == [kind |-> "string", text |-> s, keys |-> <<>>, vals |-> <<>>]
Arr(v) == [kind |-> "array", text |-> "", keys |-> <<>>, vals |-> <<v>>]
EmptyObj == [kind |-> "object", text |-> "", keys |-> <<>>, vals |-> <<>>]

MaxDepthMarker == Str("Reached max depth")
CircularMarker == Str("Circular reference")

IndexOf(seq, x) == IF \E i \in 1..Len(seq) : seq[i] = x
                   THEN CHOOSE i \in 1..Len(seq) : seq[i] = x
                   ELSE 0

\* obj[key] = v on a JavaScript object
ObjSet(obj, key, v) ==
  IF IndexOf(obj.keys, key) > 0
  THEN [obj EXCEPT !.vals[IndexOf(obj.keys, key)] = v]
  ELSE [obj EXCEPT !.keys = Append(@, key), !.vals = Append(@, v)]

\* String(v), as a template literal `${v}` converts a value
StringOf(v) ==
  IF v.kind = "string" THEN v.text
  ELSE IF v.kind = "object" THEN "[object Object]"
  ELSE v.vals[1].text

(***************************************************************************)
(* resolveTypeRecursively(type, maxDepth, currentDepth, visited)           *)
(* The outcome is the returned value or the exception thrown, together     *)
(* with the (mutable, shared) visited set as the call leaves it.           *)
(***************************************************************************)
Return(v, visited) == [threw |-> FALSE, val |-> v, msg |-> "", visited |-> visited]
Throw(m, visited) == [threw |-> TRUE, val |-> Str(""), msg |-> m, visited |-> visited]

\* no activation, nothing returned or thrown
NoFlight == [kind |-> "none", val |-> Str(""), msg |-> ""]
NoneExpanded == [t \in Types |-> 0]
WalkIdle ==
  stack = <<>> /\ visitedSet = {} /\ flight = NoFlight /\ expanded = NoneExpanded

\* no top-level call made yet
NoCall == [type |-> "", out |-> Return(Str(""), {})]

\* F applied to the value of v, which is evaluated once
Bind(v, F(_)) == CHOOSE y \in {F(x) : x \in {v}} : TRUE

RECURSIVE resolveTypeRecursively(_, _, _, _)
RECURSIVE forEachProperty(_, _, _, _, _, _)

\* properties.forEach(...) of lines 172-175, from property i on
forEachProperty(type, i, res, mD, currentDepth, visited) ==
  IF i > Len(getProperties(type)) THEN Return(res, visited)
  ELSE IF Throws("propGetType", type, i) THEN Throw(FaultMessage, visited)
  ELSE LET prop == getProperties(type)[i]
       IN Bind(resolveTypeRecursively(prop.type, mD, currentDepth + 1, visited),
               LAMBDA r :
                 IF r.threw THEN r
                 ELSE forEachProperty(type, i + 1, ObjSet(res, prop.name, r.val),
                                      mD, currentDepth, r.visited))

\* the try block, lines 165-179
tryBlock(type, typeName, mD, currentDepth, visited) ==
  IF Throws("isArray", type, 0) THEN Throw(FaultMessage, visited)
  ELSE IF isArray(type) THEN
    IF Throws("getArrayElementType", type, 0) THEN Throw(FaultMessage, visited)
    ELSE Bind(resolveTypeRecursively(getArrayElementType(type), mD,
                                     currentDepth + 1, visited),
              LAMBDA r :
                IF r.threw THEN r
                ELSE Return(Arr(Str("Array of: " \o StringOf(r.val))), r.visited))
  ELSE IF isObject(type) THEN
    IF Throws("getProperties", type, 0) THEN Throw(FaultMessage, visited)
    ELSE forEachProperty(type, 1, EmptyObj, mD, currentDepth, visited)
  ELSE Return(Str(typeName), visited)

ErrorText(typeName, message) ==
  "Error resolving type \"" \o typeName \o "\": " \o message

\* Mutant: line 162 (visited.add) left out.
resolveWithoutVisitedAdd(type, mD, currentDepth, visited) ==
  IF currentDepth > mD THEN Return(MaxDepthMarker, visited)
  ELSE IF Throws("getText", type, 0) THEN Throw(FaultMessage, visited)
  ELSE LET typeName == getText(type) IN
    IF typeName \in visited THEN Return(CircularMarker, visited)
    ELSE LET r == tryBlock(type, typeName, mD, currentDepth, visited)
         IN IF r.threw THEN Return(Str(ErrorText(typeName, r.msg)), r.visited)
            ELSE r

\* Mutant: the visited check of lines 159-160 placed before the depth check
\* of line 157.
resolveVisitedCheckFirst(type, mD, currentDepth, visited) ==
  IF Throws("getText", type, 0) THEN Throw(FaultMessage, visited)
  ELSE LET typeName == getText(type) IN
    IF typeName \in visited THEN Return(CircularMarker, visited)
    ELSE IF currentDepth > mD THEN Return(MaxDepthMarker, visited)
    ELSE LET r == tryBlock(type, typeName, mD, currentDepth, visited \cup {typeName})
         IN IF r.threw THEN Return(Str(ErrorText(typeName, r.msg)), r.visited)
            ELSE r

resolveTypeRecursively(type, mD, currentDepth, visited) ==
  IF currentDepth > mD THEN Return(MaxDepthMarker, visited)
  ELSE IF Throws("getText", type, 0) THEN Throw(FaultMessage, visited)
  ELSE LET typeName == getText(type) IN
    IF typeName \in visited THEN Return(CircularMarker, visited)
    ELSE Bind(tryBlock(type, typeName, mD, currentDepth, visited \cup {typeName}),
              LAMBDA r :
                IF r.threw THEN Return(Str(ErrorText(typeName, r.msg)), r.visited)
                ELSE r)


(***************************************************************************)
(* The facade (ts-morph Node): exported declarations.                      *)
(***************************************************************************)
Null == "<null>"

Declaration(kind, init, params, callee, origin, typeArgs, broken) ==
  [kind |-> kind, init |-> init, params |-> params, callee |-> callee,
   origin |-> origin, typeArguments |-> typeArgs, broken |-> broken]

NoDecl == Declaration("", "", <<>>, "", "", <<>>, FALSE)

ParameterLists == {<<>>} \cup {<<t>> : t \in Types}

\* function f(...) {}
FunctionDecls ==
  {Declaration("function", "none", ps, "", "", <<>>, FALSE) : ps \in ParameterLists}
\* const f = (...) => ...
ArrowDecls ==
  {Declaration("variable", "arrow", ps, "", "", <<>>, FALSE) : ps \in ParameterLists}
\* const x;  const x = 1
PlainVariableDecls ==
  {Declaration("variable", i, <<>>, "", "", <<>>, FALSE) : i \in {"none", "other"}}
\* const C = callee<typeArgs>(...), the callee's symbol declared at origin
CallDecls ==
  {Declaration("variable", "call", <<>>, "forwardRef", "react", ta, FALSE) :
     ta \in {<<>>, <<"string">>} \cup {<<"string", t>> : t \in ObjectTypes}}
  \cup
  {Declaration("variable", "call", <<>>, "React.forwardRef", "react", <<"string", "A">>, FALSE)}
  \cup
  {Declaration("variable", "call", <<>>, "forwardRef", o, <<"string", "A">>, FALSE) :
     o \in {"noSymbol", "noDeclarations", "local", "preact"}}
  \cup
  {Declaration("variable", "call", <<>>, "memo", "react", <<"string", "A">>, FALSE)}
\* class C {},  interface I {},  a declaration the facade fails on
OtherDecls ==
  {Declaration("class", "none", <<>>, "", "", <<>>, FALSE),
   Declaration("interface", "none", <<>>, "", "", <<>>, FALSE),
   Declaration("variable", "call", <<>>, "forwardRef", "react", <<>>, TRUE)}

Declarations ==
  FunctionDecls \cup ArrowDecls \cup PlainVariableDecls \cup CallDecls \cup OtherDecls

isVariableDeclaration(d) == d.kind = "variable"
isFunction(d) == d.kind = "function"
isClass(d) == d.kind = "class"

EndsWith(s, suffix) ==
  Len(s) >= Len(suffix) /\ SubSeq(s, Len(s) - Len(suffix) + 1, Len(s)) = suffix

\* resolveImportSource(node), lines 87-96
resolveImportSource(d) ==
  IF d.origin = "noSymbol" THEN Null
  ELSE IF d.origin = "noDeclarations" THEN Null
  ELSE IF d.origin = "local" THEN Null
  ELSE d.origin

\* isForwardRef(declaration), lines 69-80
isForwardRef(d) ==
  IF ~isVariableDeclaration(d) THEN FALSE
  ELSE IF d.init = "none" \/ d.init # "call" THEN FALSE
  ELSE IF ~EndsWith(d.callee, "forwardRef") THEN FALSE
  ELSE resolveImportSource(d) = "react"

\* Mutant: lines 108 and 116 without the params.length check.
isReactComponentAnyArity(d) ==
  IF isClass(d) THEN TRUE
  ELSE IF isFunction(d) THEN Len(d.params) = 0 \/ isObject(d.params[1])
  ELSE IF isVariableDeclaration(d) THEN
    IF d.init = "none" \/ d.init # "arrow" THEN FALSE
    ELSE Len(d.params) = 0 \/ isObject(d.params[1])
  ELSE FALSE

\* isReactComponent(declaration), lines 103-120
isReactComponent(d) ==
  IF isClass(d) THEN TRUE
  ELSE IF isFunction(d) THEN Len(d.params) > 0 /\ isObject(d.params[1])
  ELSE IF isVariableDeclaration(d) THEN
    IF d.init = "none" \/ d.init # "arrow" THEN FALSE
    ELSE Len(d.params) > 0 /\ isObject(d.params[1])
  ELSE FALSE

\* extractPropsType(declaration), lines 127-133: the type, Null, or the
\* TypeError of calling getParameters on an initializer that has none
extractPropsType(d) ==
  IF isFunction(d) \/ isVariableDeclaration(d) THEN
    IF isVariableDeclaration(d) /\ d.init \in {"call", "other"}
    THEN [threw |-> TRUE, type |-> Null]
    ELSE IF isVariableDeclaration(d) /\ d.init = "none"
    THEN [threw |-> FALSE, type |-> Null]
    ELSE [threw |-> FALSE, type |-> IF Len(d.params) > 0 THEN d.params[1] ELSE Null]
  ELSE [threw |-> FALSE, type |-> Null]

\* extractForwardRefPropsType(declaration), lines 140-146
extractForwardRefPropsType(d) ==
  IF d.init = "none" \/ d.init # "call" THEN Null
  ELSE IF Len(d.typeArguments) >= 2 THEN d.typeArguments[2] ELSE Null

(***************************************************************************)
(* analyzeComponentProps(filePath, maxDepth), lines 9-62                   *)
(***************************************************************************)
ExportNames == {"Card", "Button"}

\* result[n] = v
SetResult(res, n, v) == [k \in DOMAIN res \cup {n} |-> IF k = n THEN v ELSE res[k]]
EmptyResult == [k \in {} |-> EmptyObj]

\* Mutant: one visited set kept for the whole file instead of the fresh
\* default of line 156.
recordPropsSharedVisited(propsType, n, st) ==
  IF Throws("getText", propsType, 0) THEN [st EXCEPT !.threw = TRUE]
  ELSE LET r == resolveTypeRecursively(propsType, maxDepth, 0,
                                       {hist.lastProps} \ {Null})
       IN IF r.threw THEN [st EXCEPT !.threw = TRUE]
          ELSE [st EXCEPT !.result = SetResult(@, n, r.val),
                          !.processed = TRUE,
                          !.assigned = @ + 1]

\* lines 31-35 and 42-45: log the props type's text, resolve it, record it
recordProps(propsType, n, st) ==
  IF Throws("getText", propsType, 0) THEN [st EXCEPT !.threw = TRUE]
  ELSE Bind(resolveTypeRecursively(propsType, maxDepth, 0, {}),
            LAMBDA r :
              IF r.threw THEN [st EXCEPT !.threw = TRUE]
              ELSE [st EXCEPT !.result = SetResult(@, n, r.val),
                              !.processed = TRUE,
                              !.assigned = @ + 1])

\* lines 28-36
forwardRefBlock(d, n, st) ==
  IF d.broken THEN [st EXCEPT !.threw = TRUE]
  ELSE IF isForwardRef(d) THEN
    LET propsType == extractForwardRefPropsType(d)
    IN IF propsType # Null THEN recordProps(propsType, n, st) ELSE st
  ELSE st

\* lines 39-49
componentBlock(d, n, st) ==
  IF st.threw THEN st
  ELSE IF ~st.processed /\ isReactComponent(d) THEN
    LET e == extractPropsType(d)
    IN IF e.threw THEN [st EXCEPT !.threw = TRUE]
       ELSE IF e.type # Null THEN recordProps(e.type, n, st)
       ELSE st
  ELSE st

\* Mutant: lines 51-53 with the test negated.
skipWhenProcessed(st) ==
  IF st.threw THEN st
  ELSE IF st.processed THEN [st EXCEPT !.skippedCount = @ + 1]
  ELSE st

\* lines 51-53
skipBlock(st) ==
  IF st.threw THEN st
  ELSE IF ~st.processed THEN [st EXCEPT !.skippedCount = @ + 1]
  ELSE st

\* Mutant: the catch of lines 54-57 without the count.
catchWithoutCount(st) == st

\* lines 54-57
catchBlock(st) ==
  IF st.threw THEN [st EXCEPT !.skippedCount = @ + 1] ELSE st

\* the callback of declarations.forEach, lines 25-58
forEachCallback(d, n, st) ==
  catchBlock(skipBlock(componentBlock(d, n, forwardRefBlock(d, n, st))))

\* History: declaration d is classified as a component by line 28 or 39.
IsComponent(d) == ~d.broken /\ (isForwardRef(d) \/ isReactComponent(d))

\* History: the props type of declaration d when d is a component whose
\* props type is found and can be resolved, Null otherwise.
ComponentProps(d) ==
  LET propsType ==
        IF d.broken THEN Null
        ELSE IF isForwardRef(d) /\ extractForwardRefPropsType(d) # Null
        THEN extractForwardRefPropsType(d)
        ELSE IF isReactComponent(d) /\ ~extractPropsType(d).threw
        THEN extractPropsType(d).type
        ELSE Null
  IN IF propsType # Null /\ Throws("getText", propsType, 0) THEN Null ELSE propsType

\* History of the callbacks run so far: how many ran, assigned and threw, how
\* many declarations were classified as components, and for the last one
\* the flag it was entered with and whether it assigned.
NoHistory ==
  [decls |-> 0, assigned |-> 0, lastProps |-> Null, thrown |-> 0,
   components |-> 0, entered |-> FALSE, assignedNow |-> FALSE]

(***************************************************************************)
(* analyzeComponentProps as summarizeComponentProps calls it: the whole    *)
(* file in one go, lines 9-62.                                             *)
(***************************************************************************)
\* a file on disk: whether the facade can load it, and its exported names
\* with their declarations
SourceFile(readable, components) == [readable |-> readable, components |-> components]
Export(n, declarations) == [name |-> n, declarations |-> declarations]

UnreadableFile == SourceFile(FALSE, <<>>)
SourceFiles ==
  {UnreadableFile,
   SourceFile(TRUE, <<>>),
   SourceFile(TRUE, <<Export("Card",
       <<Declaration("function", "none", <<"A">>, "", "", <<>>, FALSE)>>)>>),
   SourceFile(TRUE, <<Export("Card",
       <<Declaration("class", "none", <<>>, "", "", <<>>, FALSE)>>)>>),
   SourceFile(TRUE, <<Export("Button",
       <<Declaration("variable", "call", <<>>, "forwardRef", "react", <<>>, TRUE),
         Declaration("variable", "arrow", <<"B">>, "", "", <<>>, FALSE)>>)>>)}

\* the file paths
Paths == 1..MaxFiles

RECURSIVE forEachDeclaration(_, _, _, _)
\* declarations.forEach(...), lines 25-58, from the k-th declaration on
forEachDeclaration(declarations, k, n, st) ==
  IF k > Len(declarations) THEN st
  ELSE Bind(forEachCallback(declarations[k], n, [st EXCEPT !.threw = FALSE]),
            LAMBDA s1 : forEachDeclaration(declarations, k + 1, n, s1))

RECURSIVE forEachExport(_, _, _)
\* for (const [name, declarations] of components), lines 20-59
forEachExport(components, j, st) ==
  IF j > Len(components) THEN st
  ELSE Bind(forEachDeclaration(components[j].declarations, 1, components[j].name,
                               [st EXCEPT !.processed = FALSE]),
            LAMBDA s1 : forEachExport(components, j + 1, s1))

\* lines 9-62: addSourceFileAtPath throws on a file it cannot load
analyzeComponentProps(sourceFile) ==
  IF ~sourceFile.readable
  THEN [threw |-> TRUE, result |-> EmptyResult, skippedCount |-> 0]
  ELSE Bind(forEachExport(sourceFile.components, 1,
              [result |-> EmptyResult, processed |-> FALSE,
               skippedCount |-> 0, threw |-> FALSE, assigned |-> 0]),
            LAMBDA st :
              [threw |-> FALSE, result |-> st.result, skippedCount |-> st.skippedCount])

\* summarizeComponentProps not called
NoRun ==
  [state |-> "idle", disk |-> [f \in Paths |-> UnreadableFile], files |-> <<>>,
   i |-> 0, log |-> <<>>]
SummaryIdle == run = NoRun

AnalyzeIdle ==
  /\ result = EmptyResult
  /\ skippedCount = 0
  /\ processed = FALSE
  /\ name = ""
  /\ seen = {}
  /\ decl = NoDecl
  /\ hist = NoHistory
  /\ returned = FALSE

\* the types the analysed file declares
CardGraph == [t \in Types |->
  IF t = "A" THEN <<"string", "L">> ELSE IF t = "B" THEN <<"B">>
  ELSE IF t = "L" THEN <<"string">> ELSE <<>>]
NestedGraph == [t \in Types |->
  IF t = "A" THEN <<"B", "B">> ELSE IF t = "B" THEN <<"A">>
  ELSE IF t = "L" THEN <<"A">> ELSE <<>>]
SampleGraphs == {CardGraph, NestedGraph}
SampleFaults == {NoFault, [op |-> "getText", type |-> "B", idx |-> 0]}

Init ==
  /\ graph \in SampleGraphs
  /\ fault \in SampleFaults
  /\ maxDepth \in 0..MaxDepthBound
  /\ call = NoCall
  /\ AnalyzeIdle
  /\ WalkIdle
  /\ SummaryIdle

\* one run of the callback on declaration d of exported name n, entered
\* with the flag p
RunCallback(n, d, p) ==
  LET st == forEachCallback(d, n,
              [result |-> result, processed |-> p, skippedCount |-> skippedCount,
               threw |-> FALSE, assigned |-> 0])
  IN /\ result' = st.result
     /\ processed' = st.processed
     /\ skippedCount' = st.skippedCount
     /\ decl' = d
     /\ name' = n
     /\ hist' = [decls |-> hist.decls + 1,
                 assigned |-> hist.assigned + st.assigned,
                 lastProps |->
                   IF ComponentProps(d) # Null THEN ComponentProps(d)
                   ELSE IF n = name THEN hist.lastProps ELSE Null,
                 thrown |-> hist.thrown + (IF st.threw THEN 1 ELSE 0),
                 components |-> hist.components + (IF IsComponent(d) THEN 1 ELSE 0),
                 entered |-> p,
                 assignedNow |-> st.assigned = 1]

\* line 20 moves to the next exported name (line 21: processed = false) and
\* the callback runs on its first declaration
FirstDeclaration(n, d) ==
  /\ ~returned /\ hist.decls < MaxDecls
  /\ n \notin seen
  /\ seen' = seen \cup {n}
  /\ RunCallback(n, d, FALSE)
  /\ UNCHANGED <<facadeVars, summaryVars, call, returned, walkVars>>

\* the callback runs on a further declaration of the same exported name
FurtherDeclaration(d) ==
  /\ ~returned /\ hist.decls < MaxDecls
  /\ name # ""
  /\ RunCallback(name, d, processed)
  /\ UNCHANGED <<facadeVars, summaryVars, call, seen, returned, walkVars>>

\* line 61
ReturnResult ==
  /\ ~returned
  /\ returned' = TRUE
  /\ UNCHANGED <<facadeVars, summaryVars, call, result, skippedCount, processed, name, seen,
                 decl, hist, walkVars>>

Next ==
  \/ \E n \in ExportNames, d \in Declarations : FirstDeclaration(n, d)
  \/ \E d \in Declarations : FurtherDeclaration(d)
  \/ ReturnResult

Spec == Init /\ [][Next]_vars

(***************************************************************************)
(* ResolveSpec: one top-level call of resolveTypeRecursively, with the     *)
(* defaults currentDepth = 0 and visited = new Set().                      *)
(***************************************************************************)
TypeGraphs ==
  { g \in [Types -> UNION {[1..n -> Types] : n \in 0..2}] :
      \A t \in Types : Len(g[t]) = Arity(t) }

ResolveInit ==
  /\ graph \in TypeGraphs
  /\ fault \in Faults
  /\ maxDepth \in 0..MaxDepthBound
  /\ call = NoCall
  /\ AnalyzeIdle
  /\ WalkIdle
  /\ SummaryIdle

CallResolve(type) ==
  /\ call = NoCall
  /\ call' = [type |-> type, out |-> resolveTypeRecursively(type, maxDepth, 0, {})]
  /\ UNCHANGED <<facadeVars, summaryVars, analyzeVars, walkVars>>

ResolveNext == \E type \in Types : CallResolve(type)

ResolveSpec == ResolveInit /\ [][ResolveNext]_vars

(***************************************************************************)
(* WalkSpec: resolveTypeRecursively statement by statement, one activation *)
(* record per call in progress.                                            *)
(***************************************************************************)
Frame(type, depth) ==
  [type |-> type, depth |-> depth, pc |-> "entry", typeName |-> "",
   i |-> 0, res |-> EmptyObj, msg |-> ""]

Top == stack[Len(stack)]
Pop == SubSeq(stack, 1, Len(stack) - 1)
SetTop(f) == [stack EXCEPT ![Len(stack)] = f]

Value(v) == [kind |-> "value", val |-> v, msg |-> ""]
Exception(m) == [kind |-> "exception", val |-> Str(""), msg |-> m]

WalkStarted == call # NoCall
WalkDone == WalkStarted /\ stack = <<>> /\ flight # NoFlight

WalkInit ==
  /\ graph \in TypeGraphs
  /\ fault \in Faults
  /\ maxDepth \in 0..MaxDepthBound
  /\ call = NoCall
  /\ AnalyzeIdle
  /\ WalkIdle
  /\ SummaryIdle

\* the top-level call: currentDepth = 0, visited = new Set()
WalkStart(type) ==
  /\ ~WalkStarted
  /\ call' = [type |-> type, out |-> NoCall.out]
  /\ stack' = <<Frame(type, 0)>>
  /\ visitedSet' = {}
  /\ flight' = NoFlight
  /\ expanded' = NoneExpanded
  /\ UNCHANGED <<facadeVars, summaryVars, analyzeVars>>

\* Mutant: the depth check of line 157 left out.
EnterWithoutDepthCheck ==
  /\ stack # <<>> /\ Top.pc = "entry"
  /\ IF Throws("getText", Top.type, 0)
     THEN /\ stack' = Pop
          /\ flight' = Exception(FaultMessage)
          /\ UNCHANGED <<visitedSet, expanded>>
     ELSE IF getText(Top.type) \in visitedSet
     THEN /\ stack' = Pop
          /\ flight' = Value(CircularMarker)
          /\ UNCHANGED <<visitedSet, expanded>>
     ELSE /\ visitedSet' = visitedSet \cup {getText(Top.type)}
          /\ expanded' = [expanded EXCEPT ![getText(Top.type)] = @ + 1]
          /\ stack' = SetTop([Top EXCEPT !.pc = "try", !.typeName = getText(Top.type)])
          /\ UNCHANGED flight
  /\ UNCHANGED <<facadeVars, summaryVars, analyzeVars, call>>

\* lines 157-162
Enter ==
  /\ stack # <<>> /\ Top.pc = "entry"
  /\ IF Top.depth > maxDepth
     THEN /\ stack' = Pop
          /\ flight' = Value(MaxDepthMarker)
          /\ UNCHANGED <<visitedSet, expanded>>
     ELSE IF Throws("getText", Top.type, 0)
     THEN /\ stack' = Pop
          /\ flight' = Exception(FaultMessage)
          /\ UNCHANGED <<visitedSet, expanded>>
     ELSE IF getText(Top.type) \in visitedSet
     THEN /\ stack' = Pop
          /\ flight' = Value(CircularMarker)
          /\ UNCHANGED <<visitedSet, expanded>>
     ELSE /\ visitedSet' = visitedSet \cup {getText(Top.type)}
          /\ expanded' = [expanded EXCEPT ![getText(Top.type)] = @ + 1]
          /\ stack' = SetTop([Top EXCEPT !.pc = "try", !.typeName = getText(Top.type)])
          /\ UNCHANGED flight
  /\ UNCHANGED <<facadeVars, summaryVars, analyzeVars, call>>

\* lines 165-171 and 179: the branch taken in the try block
Dispatch ==
  /\ stack # <<>> /\ Top.pc = "try"
  /\ IF Throws("isArray", Top.type, 0)
     THEN /\ stack' = SetTop([Top EXCEPT !.pc = "catch", !.msg = FaultMessage])
          /\ UNCHANGED flight
     ELSE IF isArray(Top.type)
     THEN IF Throws("getArrayElementType", Top.type, 0)
          THEN /\ stack' = SetTop([Top EXCEPT !.pc = "catch", !.msg = FaultMessage])
               /\ UNCHANGED flight
          ELSE /\ stack' = Append(SetTop([Top EXCEPT !.pc = "element"]),
                                  Frame(getArrayElementType(Top.type), Top.depth + 1))
               /\ UNCHANGED flight
     ELSE IF isObject(Top.type)
     THEN IF Throws("getProperties", Top.type, 0)
          THEN /\ stack' = SetTop([Top EXCEPT !.pc = "catch", !.msg = FaultMessage])
               /\ UNCHANGED flight
          ELSE /\ stack' = SetTop([Top EXCEPT !.pc = "forEach", !.i = 1])
               /\ UNCHANGED flight
     ELSE /\ stack' = Pop
          /\ flight' = Value(Str(Top.typeName))
  /\ UNCHANGED <<facadeVars, summaryVars, analyzeVars, call, visitedSet, expanded>>

\* lines 172-176: the next property of the forEach, or the return of result
NextProperty ==
  /\ stack # <<>> /\ Top.pc = "forEach"
  /\ IF Top.i > Len(getProperties(Top.type))
     THEN /\ stack' = Pop
          /\ flight' = Value(Top.res)
     ELSE IF Throws("propGetType", Top.type, Top.i)
     THEN /\ stack' = SetTop([Top EXCEPT !.pc = "catch", !.msg = FaultMessage])
          /\ UNCHANGED flight
     ELSE /\ stack' = Append(SetTop([Top EXCEPT !.pc = "property"]),
                             Frame(getProperties(Top.type)[Top.i].type, Top.depth + 1))
          /\ UNCHANGED flight
  /\ UNCHANGED <<facadeVars, summaryVars, analyzeVars, call, visitedSet, expanded>>

\* Mutant: the key of the type is taken out of visited when its call returns.
ResumePoppingVisited ==
  /\ stack # <<>> /\ Top.pc \in {"element", "property"}
  /\ IF flight.kind = "exception"
     THEN /\ stack' = SetTop([Top EXCEPT !.pc = "catch", !.msg = flight.msg])
          /\ flight' = NoFlight
          /\ UNCHANGED visitedSet
     ELSE IF Top.pc = "element"
     THEN /\ stack' = Pop
          /\ flight' = Value(Arr(Str("Array of: " \o StringOf(flight.val))))
          /\ visitedSet' = visitedSet \ {getText(getArrayElementType(Top.type))}
     ELSE /\ stack' = SetTop([Top EXCEPT
                                !.res = ObjSet(@, getProperties(Top.type)[Top.i].name,
                                               flight.val),
                                !.i = @ + 1, !.pc = "forEach"])
          /\ flight' = NoFlight
          /\ visitedSet' = visitedSet \ {getText(getProperties(Top.type)[Top.i].type)}
  /\ UNCHANGED <<facadeVars, summaryVars, analyzeVars, call, expanded>>

\* the recursive call of line 166 or 174 has ended: its value is used, or
\* its exception reaches the catch of the caller
Resume ==
  /\ stack # <<>> /\ Top.pc \in {"element", "property"}
  /\ IF flight.kind = "exception"
     THEN /\ stack' = SetTop([Top EXCEPT !.pc = "catch", !.msg = flight.msg])
          /\ flight' = NoFlight
     ELSE IF Top.pc = "element"
     THEN /\ stack' = Pop
          /\ flight' = Value(Arr(Str("Array of: " \o StringOf(flight.val))))
     ELSE /\ stack' = SetTop([Top EXCEPT
                                !.res = ObjSet(@, getProperties(Top.type)[Top.i].name,
                                               flight.val),
                                !.i = @ + 1, !.pc = "forEach"])
          /\ flight' = NoFlight
  /\ UNCHANGED <<facadeVars, summaryVars, analyzeVars, call, visitedSet, expanded>>

\* lines 180-182
Catch ==
  /\ stack # <<>> /\ Top.pc = "catch"
  /\ stack' = Pop
  /\ flight' = Value(Str(ErrorText(Top.typeName, Top.msg)))
  /\ UNCHANGED <<facadeVars, summaryVars, analyzeVars, call, visitedSet, expanded>>

WalkNext ==
  \/ \E type \in Types : WalkStart(type)
  \/ Enter
  \/ Dispatch
  \/ NextProperty
  \/ Resume
  \/ Catch

WalkSpec == WalkInit /\ [][WalkNext]_vars
\* the program is sequential: a call in progress takes its next step
FairWalkSpec == WalkSpec /\ WF_vars(WalkNext)

\* the outcome of the finished walk, as resolveTypeRecursively's outcome
WalkOutcome ==
  [threw |-> flight.kind = "exception", val |-> flight.val, msg |-> flight.msg,
   visited |-> visitedSet]

\* Mutant: the second call is given the Set of the first one.
WalkAgainSharedVisited ==
  /\ WalkDone /\ call.out = NoCall.out
  /\ call' = [call EXCEPT !.out = WalkOutcome]
  /\ stack' = <<Frame(call.type, 0)>>
  /\ flight' = NoFlight
  /\ expanded' = NoneExpanded
  /\ UNCHANGED <<facadeVars, summaryVars, analyzeVars, visitedSet>>

\* the same top-level call once more, its outcome the first time kept in
\* call.out: currentDepth = 0, visited = new Set() (line 156)
WalkAgain ==
  /\ WalkDone /\ call.out = NoCall.out
  /\ call' = [call EXCEPT !.out = WalkOutcome]
  /\ stack' = <<Frame(call.type, 0)>>
  /\ visitedSet' = {}
  /\ flight' = NoFlight
  /\ expanded' = NoneExpanded
  /\ UNCHANGED <<facadeVars, summaryVars, analyzeVars>>

RepeatNext == WalkNext \/ WalkAgain
RepeatSpec == WalkInit /\ [][RepeatNext]_vars

\* The walk ends with the outcome of the recursive definition.
WalkAgreesWithDefinition ==
  WalkDone => WalkOutcome = resolveTypeRecursively(call.type, maxDepth, 0, {})

(***************************************************************************)
(* SummarizeSpec: summarizeComponentProps(filePatterns, maxDepth),         *)
(* src/unnamed/part_001 lines 336-358.                                     *)
(***************************************************************************)
\* what fast-glob can return: paths, none twice
FileLists ==
  {fs \in UNION {[1..n -> Paths] : n \in 0..MaxFiles} :
     \A a, b \in DOMAIN fs : fs[a] = fs[b] => a = b}

\* lines 344-353, and line 355
Report(file, out) ==
  [file |-> file, kind |-> "report", result |-> out.result,
   skippedCount |-> out.skippedCount]
ErrorReport(file) ==
  [file |-> file, kind |-> "error", result |-> EmptyResult, skippedCount |-> 0]

\* line 336: maxDepth = 2
DefaultMaxDepth == 2

SummarizeInit ==
  /\ graph = CardGraph
  /\ fault \in SampleFaults
  /\ maxDepth = DefaultMaxDepth
  /\ call = NoCall
  /\ AnalyzeIdle
  /\ WalkIdle
  /\ \E disk \in [Paths -> SourceFiles] :
       run = [state |-> "start", disk |-> disk, files |-> <<>>, i |-> 0, log |-> <<>>]

\* line 337: fast-glob returns the files, or rejects the patterns
Discover(fs) ==
  /\ run.state = "start"
  /\ \/ run' = [run EXCEPT !.state = "loop", !.files = fs, !.i = 1]
     \/ run' = [run EXCEPT !.state = "threw"]
  /\ UNCHANGED <<facadeVars, call, analyzeVars, walkVars>>

\* Mutant: the loop body without the try of lines 340 and 354-356.
loopBodyUncaught(r) ==
  Bind(analyzeComponentProps(r.disk[r.files[r.i]]),
       LAMBDA out :
         IF out.threw
         THEN [r EXCEPT !.state = "threw"]
         ELSE [r EXCEPT !.log = Append(@, Report(r.files[r.i], out)), !.i = @ + 1])

\* lines 340-356: the body of the loop, on the file the loop is at
loopBody(r) ==
  Bind(analyzeComponentProps(r.disk[r.files[r.i]]),
       LAMBDA out :
         IF out.threw
         THEN [r EXCEPT !.log = Append(@, ErrorReport(r.files[r.i])), !.i = @ + 1]
         ELSE [r EXCEPT !.log = Append(@, Report(r.files[r.i], out)), !.i = @ + 1])

\* lines 339-357: one turn of the loop
AnalyzeNextFile ==
  /\ run.state = "loop" /\ run.i <= Len(run.files)
  /\ run' = loopBody(run)
  /\ UNCHANGED <<facadeVars, call, analyzeVars, walkVars>>

\* line 358: the loop is over, the promise resolves
Finish ==
  /\ run.state = "loop" /\ run.i > Len(run.files)
  /\ run' = [run EXCEPT !.state = "done"]
  /\ UNCHANGED <<facadeVars, call, analyzeVars, walkVars>>

SummarizeNext ==
  \/ \E fs \in FileLists : Discover(fs)
  \/ AnalyzeNextFile
  \/ Finish

SummarizeSpec == SummarizeInit /\ [][SummarizeNext]_vars
\* the program is sequential: the loop takes its next turn
FairSummarizeSpec == SummarizeSpec /\ WF_vars(SummarizeNext)

(***************************************************************************)
(* Helpers of the properties                                               *)
(***************************************************************************)
Max(a, b) == IF a >= b THEN a ELSE b

RECURSIVE MaxOver(_, _, _)
\* the largest f[seq[k]] for k >= i, or 0
MaxOver(f, seq, i) ==
  IF i > Len(seq) THEN 0 ELSE Max(f[seq[i]], MaxOver(f, seq, i + 1))

RECURSIVE DepthWithin(_)
\* DepthWithin(n)[t]: nesting depth of type t, counted up to n levels
DepthWithin(n) ==
  IF n = 0 THEN [t \in Types |-> IF Arity(t) = 0 THEN 0 ELSE 1]
  ELSE [t \in Types |->
          IF Arity(t) = 0 THEN 0 ELSE 1 + MaxOver(DepthWithin(n - 1), graph[t], 1)]

\* Nesting depth of a type; more than Cardinality(Types) - 1 iff a cycle
\* lies beneath it.
NestingDepth(type) == DepthWithin(Cardinality(Types))[type]
Acyclic(type) == NestingDepth(type) < Cardinality(Types)

Called == call # NoCall
\* the top-level call returned, and the facade threw nowhere
ReturnedClean == Called /\ fault = NoFault /\ ~call.out.threw

\* The shape of property i as a resolver with a path-scoped set gives it:
\* resolved one level deeper with only the ancestor's key on the path.
PathScopedProperty(type, i) ==
  resolveTypeRecursively(getProperties(type)[i].type, maxDepth, 1, {getText(type)}).val

(***************************************************************************)
(* C1: cycle detection is path-scoped: a property of the root object is    *)
(* reported as Circular only when its type's key is the key of an ancestor *)
(* (here: the root itself); a sibling resolved earlier never causes it.    *)
(***************************************************************************)
C1_CircularOnlyForAncestors ==
  (ReturnedClean /\ call.type \in ObjectTypes /\ maxDepth >= 1) =>
    \A i \in 1..Len(getProperties(call.type)) :
      call.out.val.vals[i] = CircularMarker =>
        getText(getProperties(call.type)[i].type) = getText(call.type)

(***************************************************************************)
(* C2: for an object type without self-reference and of nesting depth at   *)
(* most maxDepth, resolve returns an object whose keys are the declared    *)
(* property names in declaration order, each mapped to the shape of that   *)
(* property's own type resolved one level deeper.                          *)
(***************************************************************************)
C2_ObjectShape ==
  (ReturnedClean /\ call.type \in ObjectTypes /\ Acyclic(call.type)
     /\ NestingDepth(call.type) <= maxDepth) =>
    /\ call.out.val.kind = "object"
    /\ call.out.val.keys = PropNames(call.type)
    /\ \A i \in 1..Len(PropNames(call.type)) :
         call.out.val.vals[i] = PathScopedProperty(call.type, i)

(***************************************************************************)
(* C4: for an array type the result is the one-element array holding the   *)
(* structured shape of the element type resolved one level deeper.         *)
(***************************************************************************)
C4_ArrayOfElementShape ==
  (ReturnedClean /\ call.type \in ArrayTypes) =>
    call.out.val =
      Arr(resolveTypeRecursively(getArrayElementType(call.type), maxDepth, 1,
                                 {getText(call.type)}).val)

SelfReferential(type) ==
  type \in ObjectTypes /\ \A i \in 1..Len(graph[type]) : graph[type][i] = type

AllCircular(type) ==
  [kind |-> "object", text |-> "", keys |-> PropNames(type),
   vals |-> [i \in 1..Len(PropNames(type)) |-> CircularMarker]]

(***************************************************************************)
(* C5: a self-referential object type T = { next: T }, resolved with       *)
(* maxDepth >= 1, yields exactly { next: Circular }: the root is expanded  *)
(* once and each recurrence of T beneath itself is the Circular marker.    *)
(***************************************************************************)
C5_SelfReferenceIsCircular ==
  (ReturnedClean /\ SelfReferential(call.type) /\ maxDepth >= 1) =>
    call.out.val = AllCircular(call.type)

C5_Witness ==
  /\ ReturnedClean /\ call.type = "B" /\ graph["B"] = <<"B">> /\ maxDepth >= 1
  /\ call.out.val = ObjSet(EmptyObj, "next", CircularMarker)

RECURSIVE CutoffExact(_, _, _)
CutoffExact(type, shape, depth) ==
  shape.kind = "object" =>
    \A i \in 1..Len(shape.keys) :
      IF depth + 1 > maxDepth
      THEN shape.vals[i] = MaxDepthMarker
      ELSE CutoffExact(getProperties(type)[i].type, shape.vals[i], depth + 1)

IsErrorText(v) ==
  \E t \in Types : v = Str(ErrorText(getText(t), FaultMessage))

\* the facade throws on property i of the root: on reading the property's
\* type, or on a query of that type while it is being resolved
FaultOnProperty(type, i) ==
  \/ fault = [op |-> "propGetType", type |-> type, idx |-> i]
  \/ /\ fault.op \in {"getText", "isArray", "getProperties", "getArrayElementType"}
     /\ fault.type = getProperties(type)[i].type
     /\ fault.type # type
     /\ \A j \in 1..Len(getProperties(type)) :
          j # i => getProperties(type)[j].type # fault.type

(***************************************************************************)
(* C7: when the facade throws while one property's type is being queried   *)
(* or resolved, only that property becomes an error text: the enclosing    *)
(* object is still returned as an object with every declared property, and *)
(* no sibling property carries an error.                                   *)
(***************************************************************************)
C7_ErrorIsLocalToSubtree ==
  \A i \in 1..2 :
    (Called /\ call.type \in ObjectTypes /\ maxDepth >= 1
       /\ i <= Len(getProperties(call.type)) /\ FaultOnProperty(call.type, i)) =>
      /\ ~call.out.threw
      /\ call.out.val.kind = "object"
      /\ call.out.val.keys = PropNames(call.type)
      /\ \A j \in 1..Len(call.out.val.keys) : j # i => ~IsErrorText(call.out.val.vals[j])

CardDeclaration == Declaration("function", "none", <<"A">>, "", "", <<>>, FALSE)

OnlyCardExported ==
  /\ returned /\ graph = CardGraph /\ fault = NoFault /\ maxDepth = 2
  /\ hist.decls = 1 /\ name = "Card" /\ decl = CardDeclaration

(***************************************************************************)
(* C3: a file whose only export is                                         *)
(*   function Card(props: { title: string; tags: string[] })               *)
(* analysed with maxDepth = 2 yields                                       *)
(*   { Card: { title: "string", tags: ["string"] } }                       *)
(* and a skipped-count of 0.  (In CardGraph, A is the props type and L is  *)
(* string[].)                                                              *)
(***************************************************************************)
C3_CardExample ==
  OnlyCardExported =>
    /\ result = SetResult(EmptyResult, "Card",
                  ObjSet(ObjSet(EmptyObj, "title", Str("string")),
                         "tags", Arr(Str("string"))))
    /\ skippedCount = 0

(***************************************************************************)
(* C9: every exported declaration handled is either recorded in the result *)
(* or counted as skipped, never both and never neither: declarations       *)
(* recorded plus skipped-count equals declarations handled, also when one  *)
(* exported name has several declarations.                                 *)
(***************************************************************************)
C9_RecordedPlusSkipped ==
  hist.assigned + skippedCount = hist.decls

(***************************************************************************)
(* C10: when several component declarations share one exported name, the   *)
(* shape stored under the name is the one resolved from the last of them   *)
(* that was handled.                                                       *)
(***************************************************************************)
C10_LastDeclarationWins ==
  hist.lastProps # Null =>
    /\ name \in DOMAIN result
    /\ result[name] = resolveTypeRecursively(hist.lastProps, maxDepth, 0, {}).val

RECURSIVE ShapeDepth(_)
\* nesting depth of a returned value: a string is 0
ShapeDepth(shape) ==
  IF shape.kind = "string" THEN 0
  ELSE 1 + MaxOver([i \in 1..Len(shape.vals) |-> ShapeDepth(shape.vals[i])],
                   [i \in 1..Len(shape.vals) |-> i], 1)

(***************************************************************************)
(* C8: for every finite type graph, self-referential and mutually          *)
(* referential object types included, and every maxDepth, resolve          *)
(* terminates, never nests its calls deeper than maxDepth + 1 below the    *)
(* root, and returns a finite tree of nesting depth at most maxDepth + 1.  *)
(***************************************************************************)
C8_TerminatesWithBoundedTree ==
  /\ [](Len(stack) <= maxDepth + 2)
  /\ [](WalkDone => ShapeDepth(flight.val) <= maxDepth + 1)
  /\ <>WalkDone

\* a walk over mutually referential types that ended at the full depth
C8_Witness ==
  /\ WalkDone /\ fault = NoFault /\ call.type = "A"
  /\ graph["A"][1] = "B" /\ graph["B"][1] = "A"
  /\ ShapeDepth(flight.val) = maxDepth + 1

(***************************************************************************)
(* C11: a declaration whose processing throws adds exactly one to the      *)
(* skipped count and leaves the recorded entries as they were; the file is *)
(* not abandoned: the loop over the declarations is still in progress and  *)
(* the analysis has not returned.                                          *)
(***************************************************************************)
ThrowingStep == hist'.thrown = hist.thrown + 1

C11_ThrowIsCountedOnce ==
  [][ThrowingStep =>
       /\ skippedCount' = skippedCount + 1
       /\ result' = result
       /\ returned' = FALSE /\ name' # ""]_vars

\* the first declaration threw, the second one was processed and recorded
C11_Witness ==
  /\ hist.decls = 2 /\ hist.thrown = 1 /\ skippedCount = 1
  /\ hist.assignedNow /\ DOMAIN result # {}

\* a step that runs the callback on one more declaration
CallbackStep == hist'.decls = hist.decls + 1

\* const C = <...>forwardRef(...)
ForwardRefCall(d) ==
  /\ ~d.broken /\ d.kind = "variable" /\ d.init = "call"
  /\ EndsWith(d.callee, "forwardRef")

(***************************************************************************)
(* C12: a variable initialized by a call whose callee text ends with       *)
(* forwardRef is a forwardRef component exactly when the callee is         *)
(* imported from "react"; then, with two type arguments or more, the props *)
(* type is the second one.  From any other module, or with no import to be *)
(* found, the declaration is no component: nothing is recorded and the     *)
(* skipped count goes up by one.                                           *)
(***************************************************************************)
C12_ForwardRefFromReactOnly ==
  [][CallbackStep /\ ForwardRefCall(decl') =>
       IF decl'.origin = "react"
       THEN /\ isForwardRef(decl')
            /\ Len(decl'.typeArguments) >= 2 =>
                 /\ extractForwardRefPropsType(decl') = decl'.typeArguments[2]
                 /\ hist'.assignedNow =>
                      result'[name'] =
                        resolveTypeRecursively(decl'.typeArguments[2], maxDepth, 0, {}).val
       ELSE /\ ~isForwardRef(decl') /\ ~isReactComponent(decl')
            /\ result' = result
            /\ skippedCount' = skippedCount + 1]_vars

(***************************************************************************)
(* C13: a forwardRef component with fewer than two type arguments has no   *)
(* props type: the skipped count goes up by exactly one, nothing is        *)
(* recorded, and nothing is thrown.                                        *)
(***************************************************************************)
C13_ForwardRefWithoutPropsIsSkipped ==
  [][CallbackStep /\ ForwardRefCall(decl') /\ isForwardRef(decl')
       /\ Len(decl'.typeArguments) < 2 =>
       /\ extractForwardRefPropsType(decl') = Null
       /\ skippedCount' = skippedCount + 1
       /\ result' = result
       /\ hist'.thrown = hist.thrown]_vars

\* function f(...) {}  or  const f = (...) => ...
FunctionLike(d) ==
  ~d.broken /\ (d.kind = "function" \/ (d.kind = "variable" /\ d.init = "arrow"))

(***************************************************************************)
(* C14: a function, or an arrow function held by a variable, that has no   *)
(* parameter is no component and records nothing; one whose first          *)
(* parameter has an object type is a component, its props type is the type *)
(* of that parameter, and (first under its name, the type's text readable) *)
(* what is recorded is the shape of that type.                             *)
(***************************************************************************)
C14_FirstParameterIsProps ==
  hist.decls > 0 /\ FunctionLike(decl) =>
    IF Len(decl.params) = 0
    THEN ~isReactComponent(decl) /\ ~hist.assignedNow
    ELSE isObject(decl.params[1]) =>
           /\ isReactComponent(decl)
           /\ extractPropsType(decl) = [threw |-> FALSE, type |-> decl.params[1]]
           /\ ~hist.entered /\ ~Throws("getText", decl.params[1], 0) =>
                /\ hist.assignedNow
                /\ result[name] =
                     resolveTypeRecursively(decl.params[1], maxDepth, 0, {}).val

\* both cases have happened: a function without parameters left the entry
\* of function Card(props: A) alone
C14_Witness ==
  /\ hist.decls = 2 /\ hist.assigned = 1 /\ ~hist.assignedNow
  /\ decl.kind = "function" /\ decl.params = <<>>
  /\ hist.lastProps = "A" /\ DOMAIN result # {}

(***************************************************************************)
(* C15: when no exported declaration of the file is a component, the       *)
(* result is empty and the skipped count is the number of exported         *)
(* declarations.                                                           *)
(***************************************************************************)
C15_NoComponentsAllSkipped ==
  returned /\ hist.components = 0 =>
    result = EmptyResult /\ skippedCount = hist.decls

C15_Witness ==
  /\ returned /\ hist.components = 0 /\ hist.decls = MaxDecls
  /\ hist.thrown = 0 /\ skippedCount = MaxDecls

(***************************************************************************)
(* C18: what is recorded for a component is the shape of its own props     *)
(* type resolved from depth 0 with an empty visited set, whatever          *)
(* declarations the file had before it.                                    *)
(***************************************************************************)
C18_ShapeIndependentOfHistory ==
  hist.assignedNow =>
    /\ ComponentProps(decl) # Null
    /\ result[name] = resolveTypeRecursively(ComponentProps(decl), maxDepth, 0, {}).val

\* two components with one props type: the second shape is the first one
\* again, not a marker
C18_Witness ==
  /\ hist.assigned = 2 /\ hist.assignedNow
  /\ DOMAIN result = ExportNames
  /\ result["Card"] = result["Button"]
  /\ result["Card"].kind = "object"

(***************************************************************************)
(* C20: an exported class is classified as a component, no props type is   *)
(* extracted from it, so it is never recorded and the skipped count goes   *)
(* up by one for it, always.                                               *)
(***************************************************************************)
C20_ClassAlwaysSkipped ==
  [][CallbackStep /\ decl'.kind = "class" =>
       /\ isReactComponent(decl')
       /\ extractPropsType(decl') = [threw |-> FALSE, type |-> Null]
       /\ result' = result
       /\ skippedCount' = skippedCount + 1]_vars

\* the k-th line of the console is about the k-th file found and says what
\* the analysis of that file gives
ReportedAsAnalyzed(k) ==
  LET file == run.files[k]
      out == analyzeComponentProps(run.disk[file])
  IN run.log[k] = IF out.threw THEN ErrorReport(file) ELSE Report(file, out)

(***************************************************************************)
(* C16: the files are analyzed one at a time in the order they were found; *)
(* a file whose analysis fails is reported as an error and the loop goes   *)
(* on to the files after it; once the files are found the run does not     *)
(* throw, and it completes with one report per file.                       *)
(***************************************************************************)
C16_EveryFileReported ==
  /\ [](run.state \in {"loop", "done"} =>
          /\ Len(run.log) = run.i - 1
          /\ \A k \in 1..Len(run.log) : ReportedAsAnalyzed(k))
  /\ [][run'.state = "threw" => run.state = "start"]_vars
  /\ (run.state = "loop") ~>
        (run.state = "done" /\ Len(run.log) = Len(run.files))

\* the first file failed, the second one was analyzed and has props
C16_Witness ==
  /\ run.state = "done" /\ Len(run.files) = 2
  /\ run.log[1].kind = "error"
  /\ run.log[2].kind = "report" /\ run.log[2].result # EmptyResult

(***************************************************************************)
(* C17: the same top-level call made twice, on the same types and with the *)
(* same maxDepth, gives the same outcome both times: the second call       *)
(* starts with a visited set of its own, nothing of the first is in it.    *)
(***************************************************************************)
SecondCallDone == WalkDone /\ call.out # NoCall.out

C17_SecondCallSameTree ==
  /\ SecondCallDone => WalkOutcome = call.out
  /\ call.out # NoCall.out /\ Len(stack) = 1 /\ Top.pc = "entry" => visitedSet = {}

\* an object was expanded both times, with more than one key visited
C17_Witness ==
  /\ SecondCallDone
  /\ call.out.val.kind = "object" /\ Cardinality(call.out.visited) >= 2
  /\ flight.val.kind = "object"

RECURSIVE SumOver(_, _)
SumOver(f, S) ==
  IF S = {} THEN 0
  ELSE LET t == CHOOSE x \in S : TRUE IN f[t] + SumOver(f, S \ {t})

\* the activation on top of the stack is at line 157, within the depth
\* budget, and the text of its type can be read
EntryWithinBudget ==
  /\ stack # <<>> /\ Top.pc = "entry"
  /\ Top.depth <= maxDepth /\ ~Throws("getText", Top.type, 0)

(***************************************************************************)
(* C19: within one top-level call visited only grows; a type text is       *)
(* expanded at most once, namely when it is met the first time within the  *)
(* depth budget, and every time it is met again within the depth budget    *)
(* the Circular marker is returned; so there are no more expanded nodes    *)
(* than distinct type texts.                                               *)
(***************************************************************************)
C19_ExpandedAtMostOnce ==
  /\ [](/\ \A t \in Types :
             /\ expanded[getText(t)] <= 1
             /\ expanded[getText(t)] = 1 <=> getText(t) \in visitedSet
        /\ SumOver(expanded, Types) <= Cardinality({getText(t) : t \in Types}))
  /\ [][/\ stack # <<>> => visitedSet \subseteq visitedSet'
        /\ EntryWithinBudget =>
             IF getText(Top.type) \in visitedSet
             THEN /\ stack' = Pop /\ flight' = Value(CircularMarker)
                  /\ expanded' = expanded
             ELSE expanded'[getText(Top.type)] = 1]_vars

\* a type met again after its expansion has returned: the marker comes
\* back and the type stays expanded once
C19_Witness ==
  /\ stack # <<>> /\ Top.pc = "property" /\ Top.i = 2
  /\ flight = Value(CircularMarker)
  /\ getProperties(Top.type)[1].type = getProperties(Top.type)[2].type
  /\ getProperties(Top.type)[2].type # Top.type
  /\ expanded[getText(getProperties(Top.type)[2].type)] = 1
  /\ SumOver(expanded, Types) >= 2

====
